---- MODULE Spec2Model ----
(***************************************************************************)
(* Model of robovac_logger.py: the account resolver                        *)
(* (_fetch_first_vacuum_sync), LAN discovery (discover_device_ip), the     *)
(* change reporter (main.log_state_update) and the orchestrator (main and  *)
(* the __main__ block).                                                    *)
(***************************************************************************)
EXTENDS Integers, Sequences, FiniteSets, TLC

VARIABLES
    \* ---- change reporter (closure state of main, lines 185-205) ----
    vacuum,          \* "None" or "session": the nonlocal `vacuum` (line 211/213)
    vac_state,       \* vacuum.state: mapping field -> value (<<>> is empty/unset)
    previous_state,  \* the nonlocal snapshot (line 185)
    last,            \* history: the most recent log_state_update invocation
    printedFresh,    \* history: fields printed and not changed since
    \* ---- discover_device_ip (lines 137-164) ----
    device_id,       \* the requested device id
    dpc,             \* position inside discover_device_ip
    ip_future,       \* the asyncio future created at line 140
    listener,        \* the TuyaLocalDiscovery object: none/created/started/closed
    closeCalls,      \* how many times discovery.close() ran
    dres,            \* how discover_device_ip ended: returned ip or raised error
    delivered,       \* history: payloads handed to handle_discovery, in order
    setCalls,        \* history: how many times ip_future.set_result ran
    cbRaised,        \* history: handle_discovery raised (InvalidStateError)
    \* ---- _fetch_first_vacuum_sync (lines 47-129) ----
    rin,             \* the collaborators' responses it is run against
    rout,            \* what it returned or raised, and the lookups it made
    \* ---- main and the __main__ block (lines 167-246) ----
    pc,              \* the orchestrator's position
    credentials,     \* what the prompts left in email and password
    cloudCalls,      \* history: the cloud API calls of fetch_first_vacuum's run
    vacuum_details,  \* the descriptor returned by fetch_first_vacuum
    calls,           \* how often main invoked connect, get, the reporter, disconnect
    stdoutNotice,    \* which user-facing notices main printed
    fatal,           \* the reason the run ended on, "" if none
    errLogged,       \* how many times the top level logged an error (line 245)
    exitStatus,      \* the process exit status, -1 while running
    interruptedAt    \* history: where the operator interrupt arrived

reporterVars == <<vacuum, vac_state, previous_state, last, printedFresh>>

discVars == <<device_id, dpc, ip_future, listener, closeCalls, dres, delivered,
              setCalls, cbRaised>>

resolveVars == <<rin, rout>>

mainVars == <<pc, credentials, cloudCalls, vacuum_details, calls, stdoutNotice,
              fatal, errLogged, exitStatus, interruptedAt>>

vars == <<reporterVars, discVars, resolveVars, mainVars>>

---------------------------------------------------------------------------
(* Python values a state field may hold, written as their Python repr.     *)
(* True and 1 are different objects that compare equal in Python.          *)

Keys == {"battery", "state"}

\* the order json.dumps(..., sort_keys=True) emits the keys in
KeyOrder == <<"battery", "state">>

Values == {"None", "True", "1", "'docked'"}

PyNumeric == {"True", "1"}

\* Python's == on the modelled values: bool is a subclass of int, True == 1
PyEq(a, b) == (a = b) \/ (a \in PyNumeric /\ b \in PyNumeric)

Maps == UNION {[D -> Values] : D \in SUBSET Keys}

EmptyMap == << >>

\* a lookup that finds no key, as against a snapshot that is always empty
DictGetAlwaysMissing(d, key) == "None"

\* dict.get(key): None when the key is missing (line 197)
DictGet(d, key) == IF key \in DOMAIN d THEN d[key] ELSE "None"

\* json.dumps of one value (line 204)
JsonValue(v) ==
    CASE v = "None" -> "null"
      [] v = "True" -> "true"
      [] v = "1" -> "1"
      [] v = "'docked'" -> "\"docked\""

\* json.dumps(changes, indent=2, sort_keys=True): the members in key order
JsonDumps(m) ==
    LET ks == SelectSeq(KeyOrder, LAMBDA k : k \in DOMAIN m)
    IN  [i \in 1..Len(ks) |-> <<ks[i], JsonValue(m[ks[i]])>>]

\* a reporter that reports every field of the current state
ComputeChangesUnfiltered(previous, current) == current

\* lines 194-198: the dict comprehension
ComputeChanges(previous, current) ==
    LET changed == {key \in DOMAIN current :
                        ~PyEq(DictGet(previous, key), current[key])}
    IN  [key \in changed |-> current[key]]

\* a reporter that never replaces its snapshot
NewSnapshotKeepsPrevious(previous, current) == previous

\* line 199: previous_state = dict(current_state)
NewSnapshot(previous, current) == current

\* lines 202-205: header, body, blank line
PrintUpdate(changes) ==
    << [kind |-> "header", body |-> << >>],
       [kind |-> "json", body |-> JsonDumps(changes)],
       [kind |-> "blank", body |-> << >>] >>

\* a reporter without the test for an empty state
LogStateUpdateResultNoEmptyTest(vac, previous, current) ==
    IF vac = "None" THEN [snapshot |-> previous, out |-> << >>]
    ELSE LET changes == ComputeChanges(previous, current)
         IN  [snapshot |-> NewSnapshot(previous, current),
              out |-> IF changes = EmptyMap THEN << >> ELSE PrintUpdate(changes)]

\* a reporter that replaces the snapshot only when it has changes to print
LogStateUpdateResultReplaceOnChange(vac, previous, current) ==
    IF vac = "None" THEN [snapshot |-> previous, out |-> << >>]
    ELSE IF current = EmptyMap THEN [snapshot |-> previous, out |-> << >>]
    ELSE LET changes == ComputeChanges(previous, current)
         IN  IF changes = EmptyMap
             THEN [snapshot |-> previous, out |-> << >>]
             ELSE [snapshot |-> NewSnapshot(previous, current),
                   out |-> PrintUpdate(changes)]

\* lines 187-205: what one invocation leaves behind
LogStateUpdateResult(vac, previous, current) ==
    IF vac = "None" THEN [snapshot |-> previous, out |-> << >>]
    ELSE IF current = EmptyMap THEN [snapshot |-> previous, out |-> << >>]
    ELSE LET changes == ComputeChanges(previous, current)
         IN  [snapshot |-> NewSnapshot(previous, current),
              out |-> IF changes = EmptyMap THEN << >> ELSE PrintUpdate(changes)]

\* seen: the state of the most recent invocation that found a non-empty state
NoCall ==
    [by |-> "none", prev |-> EmptyMap, cur |-> EmptyMap, out |-> << >>,
     seen |-> EmptyMap]

\* the fields one invocation printed (lines 202-205)
PrintedKeys(out) ==
    IF out = << >> THEN {} ELSE {out[2].body[i][1] : i \in DOMAIN out[2].body}

\* the fields whose presence or value (by Python's ==) differs between two states
ChangedKeys(old, new) ==
    {k \in Keys :
        \/ (k \in DOMAIN old) # (k \in DOMAIN new)
        \/ k \in DOMAIN old /\ k \in DOMAIN new /\ ~PyEq(old[k], new[k])}

\* one invocation of log_state_update, by the session's push callback or by main
LogStateUpdate(by) ==
    LET r == LogStateUpdateResult(vacuum, previous_state, vac_state)
    IN  /\ previous_state' = r.snapshot
        /\ printedFresh' = printedFresh \cup PrintedKeys(r.out)
        /\ last' = [by |-> by, prev |-> previous_state, cur |-> vac_state,
                    out |-> r.out,
                    seen |-> IF vacuum = "None" \/ vac_state = EmptyMap
                             THEN last.seen ELSE vac_state]

\* the session stores a new field mapping (vacuum.state, line 191)
DeviceStateChange ==
    /\ vacuum = "session"
    /\ \E m \in Maps :
        /\ m # vac_state
        /\ vac_state' = m
        /\ printedFresh' = printedFresh \ ChangedKeys(vac_state, m)
    /\ UNCHANGED <<vacuum, previous_state, last>>

\* the session awaits update_entity_state (line 220)
PushCallback ==
    /\ vacuum = "session"
    /\ LogStateUpdate("push")
    /\ UNCHANGED <<vacuum, vac_state>>

\* the reporter's closure as main creates it (lines 185, 211)
ReporterFresh ==
    /\ vac_state = EmptyMap
    /\ previous_state = EmptyMap
    /\ last = NoCall
    /\ printedFresh = {}

---------------------------------------------------------------------------
(* discover_device_ip, lines 137-164                                       *)

DeviceIds == {"vac1", "vac2"}

IpValues == {"", "10.0.0.5", "10.0.0.9"}

\* a broadcast payload: a dict that may lack "gwId" and/or "ip"
Payloads ==
    UNION {[D -> DeviceIds \cup IpValues] : D \in SUBSET {"gwId", "ip"}}

WellFormedPayloads ==
    {p \in Payloads :
        /\ ("gwId" \in DOMAIN p => p["gwId"] \in DeviceIds)
        /\ ("ip" \in DOMAIN p => p["ip"] \in IpValues)}

\* how many payloads a run of the model delivers
MaxPayloads == 3

\* Python truthiness of an ip value that may be None or ""
Truthy(v) == v # "None" /\ v # ""

FuturePending == [st |-> "pending", val |-> ""]

FutureNone == [st |-> "none", val |-> ""]

\* a test that takes only a future holding a result for done
FutureDoneResultOnly(f) == f.st = "result"

\* asyncio.Future.done()
FutureDone(f) == f.st \in {"result", "cancelled"}

NoResult == [kind |-> "none", val |-> ""]

DiscIdle ==
    /\ dpc = "idle"
    /\ ip_future = FutureNone
    /\ listener = "none"
    /\ closeCalls = 0
    /\ dres = NoResult
    /\ delivered = << >>
    /\ setCalls = 0
    /\ cbRaised = FALSE

\* lines 139-152: create the future and the listener, await discovery.start()
DiscoverBegin ==
    /\ dpc = "idle"
    /\ dpc' = "starting"
    /\ ip_future' = FuturePending
    /\ listener' = "created"
    /\ UNCHANGED <<device_id, closeCalls, dres, delivered, setCalls, cbRaised>>

\* line 152: start() returned
StartOk ==
    /\ dpc = "starting"
    /\ listener' = "started"
    /\ dpc' = "waiting"
    /\ UNCHANGED <<device_id, ip_future, closeCalls, dres, delivered, setCalls,
                   cbRaised>>

\* discovery.close(), lines 154 and 164
ListenerClose ==
    /\ listener' = "closed"
    /\ closeCalls' = closeCalls + 1

\* a start-failure handler that forgets discovery.close()
StartFailNoClose ==
    /\ dpc = "starting"
    /\ dres' = [kind |-> "error", val |-> "ports"]
    /\ dpc' = "done"
    /\ UNCHANGED <<device_id, ip_future, listener, closeCalls, delivered, setCalls,
                   cbRaised>>

\* lines 153-155: start() raised DiscoveryPortsNotAvailableException
StartFail ==
    /\ dpc = "starting"
    /\ ListenerClose
    /\ dres' = [kind |-> "error", val |-> "ports"]
    /\ dpc' = "done"
    /\ UNCHANGED <<device_id, ip_future, delivered, setCalls, cbRaised>>

\* asyncio.Future.set_result: InvalidStateError unless the future is pending
FutureSetResult(fut, value) ==
    IF fut.st = "pending"
    THEN [fut |-> [st |-> "result", val |-> value], set |-> 1, raised |-> FALSE]
    ELSE [fut |-> fut, set |-> 1, raised |-> TRUE]

\* handle_discovery without the `not ip_future.done()` test
HandleDiscoveryNoDoneTest(payload, dev, fut) ==
    IF DictGet(payload, "gwId") # dev
    THEN [fut |-> fut, set |-> 0, raised |-> FALSE]
    ELSE LET ip_address == DictGet(payload, "ip")
         IN  IF Truthy(ip_address)
             THEN FutureSetResult(fut, ip_address)
             ELSE [fut |-> fut, set |-> 0, raised |-> FALSE]

\* lines 142-148: what handle_discovery does to the future for one payload
HandleDiscovery(payload, dev, fut) ==
    IF DictGet(payload, "gwId") # dev
    THEN [fut |-> fut, set |-> 0, raised |-> FALSE]
    ELSE LET ip_address == DictGet(payload, "ip")
         IN  IF Truthy(ip_address) /\ ~FutureDone(fut)
             THEN FutureSetResult(fut, ip_address)
             ELSE [fut |-> fut, set |-> 0, raised |-> FALSE]

\* the listener hands one received payload to the callback; the tasks it
\* scheduled may still run after close() and after the function has ended
Deliver ==
    /\ listener # "none"
    /\ Len(delivered) < MaxPayloads
    /\ \E payload \in WellFormedPayloads :
        LET r == HandleDiscovery(payload, device_id, ip_future)
        IN  /\ ip_future' = r.fut
            /\ setCalls' = setCalls + r.set
            /\ cbRaised' = (cbRaised \/ r.raised)
            /\ delivered' = Append(delivered, payload)
    /\ UNCHANGED <<device_id, dpc, listener, closeCalls, dres>>

\* line 158: the timeout of wait_for expires with the future still pending;
\* wait_for cancels the future and waits for the cancellation
TimeoutFires ==
    /\ dpc = "waiting"
    /\ ip_future.st = "pending"
    /\ ip_future' = [st |-> "cancelled", val |-> ""]
    /\ dpc' = "timed_out"
    /\ UNCHANGED <<device_id, listener, closeCalls, dres, delivered, setCalls,
                   cbRaised>>

\* a timeout handler that closes in the except clause and again in finally
TimeoutRaiseClosesTwice ==
    /\ dpc = "timed_out"
    /\ listener' = "closed"
    /\ closeCalls' = closeCalls + 2
    /\ dres' = [kind |-> "error", val |-> "timeout"]
    /\ dpc' = "done"
    /\ UNCHANGED <<device_id, ip_future, delivered, setCalls, cbRaised>>

\* lines 159-164: TimeoutError becomes VacuumLoginError; finally closes
TimeoutRaise ==
    /\ dpc = "timed_out"
    /\ ListenerClose
    /\ dres' = [kind |-> "error", val |-> "timeout"]
    /\ dpc' = "done"
    /\ UNCHANGED <<device_id, ip_future, delivered, setCalls, cbRaised>>

\* lines 158, 163-164: wait_for returns the future's result; finally closes
DiscoverReturn ==
    /\ dpc = "waiting"
    /\ ip_future.st = "result"
    /\ ListenerClose
    /\ dres' = [kind |-> "ip", val |-> ip_future.val]
    /\ dpc' = "done"
    /\ UNCHANGED <<device_id, ip_future, delivered, setCalls, cbRaised>>

DiscoverStep ==
    \/ DiscoverBegin
    \/ StartOk
    \/ StartFail
    \/ Deliver
    \/ TimeoutFires
    \/ TimeoutRaise
    \/ DiscoverReturn

---------------------------------------------------------------------------
(* _fetch_first_vacuum_sync, lines 47-129                                  *)

\* how many devices the account's device list holds at most
MaxDevices == 2

\* the ids of the devices of the list, by position
IdNames == <<"vac1", "vac2", "vac3", "vac4">>

Chars(a, b, c, d, e) == <<a, b, c, d, e>>

\* product codes a device record may carry, as character sequences
ProductCodes ==
    { << >>,
      <<"T", "2">>,
      Chars("T", "2", "1", "1", "8"),
      Chars("T", "2", "1", "1", "8") \o <<"A">>,
      Chars("T", "9", "9", "9", "9") \o <<"B">> }

\* a device record: its category, its product code and what the secondary
\* lookup does for it ("raises", or the localKey it returns, "" for none)
DeviceRecords(codes) ==
    [appliance : {"Cleaning", "Other"},
     product_code : codes,
     lookup : {"raises", "", "localkey"}]

SeqsUpTo(S, n) == UNION {[1..k -> S] : k \in 0..n}

OptionalField(name, S) == {<< >>} \cup {[f \in {name} |-> v] : v \in S}

\* the user profile fields the derivation reads
UserInfos ==
    { pc1 @@ c1 : pc1 \in OptionalField("phone_code", {"", "49"}),
                  c1 \in OptionalField("country", {"", "DE"}) }

TuyaHomes == OptionalField("tuya_region_code", {"", "US"})

ResolveInputs(devs, homes, infos) ==
    [login : {"none", "http500", "rejected", "ok"},
     device_response : {"none", "ok"},
     settings_response : {"none", "ok"},
     tuya_home : homes,
     user_info : infos,
     devices : devs]

\* the vendored country tables, lines 84-90: opaque lookups
get_phone_code_by_region(region) == "phone_of_region(" \o region \o ")"

get_region_by_phone_code(phone) == "region_of_phone(" \o phone \o ")"

get_region_by_country_code(country) == "region_of_country(" \o country \o ")"

get_phone_code_by_country_code(country) == "phone_of_country(" \o country \o ")"

\* a derivation that tests the profile's phone_code before the region code
DeriveRegionPhoneFirst(tuya_home, user_info) ==
    IF Truthy(DictGet(user_info, "phone_code"))
    THEN [region |-> get_region_by_phone_code(user_info["phone_code"]),
          country_code |-> user_info["phone_code"]]
    ELSE IF "tuya_region_code" \in DOMAIN tuya_home
    THEN LET region == IF Truthy(tuya_home["tuya_region_code"])
                       THEN tuya_home["tuya_region_code"] ELSE "EU"
         IN  [region |-> region,
              country_code |-> get_phone_code_by_region(region)]
    ELSE IF Truthy(DictGet(user_info, "country"))
    THEN [region |-> get_region_by_country_code(user_info["country"]),
          country_code |-> get_phone_code_by_country_code(user_info["country"])]
    ELSE [region |-> "EU", country_code |-> "44"]

\* lines 78-93
DeriveRegion(tuya_home, user_info) ==
    IF "tuya_region_code" \in DOMAIN tuya_home
    THEN LET region == IF Truthy(tuya_home["tuya_region_code"])
                       THEN tuya_home["tuya_region_code"] ELSE "EU"
         IN  [region |-> region,
              country_code |-> IF Truthy(DictGet(user_info, "phone_code"))
                               THEN user_info["phone_code"]
                               ELSE get_phone_code_by_region(region)]
    ELSE IF Truthy(DictGet(user_info, "phone_code"))
    THEN [region |-> get_region_by_phone_code(user_info["phone_code"]),
          country_code |-> user_info["phone_code"]]
    ELSE IF Truthy(DictGet(user_info, "country"))
    THEN [region |-> get_region_by_country_code(user_info["country"]),
          country_code |-> get_phone_code_by_country_code(user_info["country"])]
    ELSE [region |-> "EU", country_code |-> "44"]

NoDetails == [id |-> "", model |-> << >>, access_token |-> ""]

\* a scan in which a raising lookup aborts instead of continuing
RECURSIVE ScanDevicesAbortOnError(_, _, _)
ScanDevicesAbortOnError(devices, i, lookups) ==
    IF i > Len(devices)
    THEN [kind |-> "error", reason |-> "no_devices", idx |-> 0,
          lookups |-> lookups, details |-> NoDetails]
    ELSE LET item == devices[i]
         IN  IF item.appliance # "Cleaning"
             THEN ScanDevicesAbortOnError(devices, i + 1, lookups)
             ELSE IF item.lookup = "raises"
             THEN [kind |-> "error", reason |-> "lookup_failed", idx |-> 0,
                   lookups |-> Append(lookups, i), details |-> NoDetails]
             ELSE IF ~Truthy(item.lookup)
             THEN ScanDevicesAbortOnError(devices, i + 1, Append(lookups, i))
             ELSE [kind |-> "ok", reason |-> "", idx |-> i,
                   lookups |-> Append(lookups, i),
                   details |-> [id |-> IdNames[i], model |-> item.product_code,
                                access_token |-> item.lookup]]

\* lines 104-129: the scan from device i on; lookups are the positions whose
\* local key was requested so far
RECURSIVE ScanDevices(_, _, _)
ScanDevices(devices, i, lookups) ==
    IF i > Len(devices)
    THEN [kind |-> "error", reason |-> "no_devices", idx |-> 0,
          lookups |-> lookups, details |-> NoDetails]
    ELSE LET item == devices[i]
         IN  IF item.appliance # "Cleaning"
             THEN ScanDevices(devices, i + 1, lookups)
             ELSE IF item.lookup = "raises"
             THEN ScanDevices(devices, i + 1, Append(lookups, i))
             ELSE IF ~Truthy(item.lookup)
             THEN ScanDevices(devices, i + 1, Append(lookups, i))
             ELSE [kind |-> "ok", reason |-> "", idx |-> i,
                   lookups |-> Append(lookups, i),
                   details |-> [id |-> IdNames[i], model |-> item.product_code,
                                access_token |-> item.lookup]]

NoRegion == [region |-> "", country_code |-> ""]

ResolveError(reason) ==
    [kind |-> "error", reason |-> reason, idx |-> 0, lookups |-> << >>,
     details |-> NoDetails, derived |-> NoRegion]

\* lines 47-129
FetchFirstVacuum(in) ==
    IF in.login \in {"none", "http500"} THEN ResolveError("unreachable")
    ELSE IF in.login = "rejected" THEN ResolveError("rejected")
    ELSE IF in.device_response = "none" THEN ResolveError("no_device_list")
    ELSE IF in.settings_response = "none" THEN ResolveError("no_settings")
    ELSE LET scan == ScanDevices(in.devices, 1, << >>)
         IN  [kind |-> scan.kind, reason |-> scan.reason, idx |-> scan.idx,
              lookups |-> scan.lookups, details |-> scan.details,
              derived |-> DeriveRegion(in.tuya_home, in.user_info)]

NotRun == [kind |-> "none", reason |-> "", idx |-> 0, lookups |-> << >>,
           details |-> NoDetails, derived |-> NoRegion]

NoInput == [login |-> "none", device_response |-> "none",
            settings_response |-> "none", tuya_home |-> << >>,
            user_info |-> << >>, devices |-> << >>]

ResolveIdle ==
    /\ rin = NoInput
    /\ rout = NotRun

\* one run of _fetch_first_vacuum_sync against the responses in rin
Resolve ==
    /\ rout = NotRun
    /\ rout' = FetchFirstVacuum(rin)
    /\ UNCHANGED rin

---------------------------------------------------------------------------
(* main and the __main__ block, lines 167-246                              *)

\* the model codes the RoboVac constructor recognises
SupportedModels == {Chars("T", "2", "1", "1", "8")}

\* Python's s[:n]
Take(s, n) == SubSeq(s, 1, IF Len(s) < n THEN Len(s) ELSE n)

NoCalls == [connect |-> 0, get |-> 0, report |-> 0, disconnect |-> 0]

\* before line 171: nothing was asked yet
NoCredentials == [asked |-> FALSE, email |-> "", password_given |-> FALSE]

MainIdle ==
    /\ credentials = NoCredentials
    /\ cloudCalls = {}
    /\ vacuum_details = NoDetails
    /\ calls = NoCalls
    /\ stdoutNotice = {}
    /\ fatal = ""
    /\ errLogged = 0
    /\ exitStatus = -1
    /\ interruptedAt = "none"

\* a top level that logs the error and lets the process end normally
TopLevelLoginErrorLoggedOnly(reason) ==
    /\ fatal' = reason
    /\ errLogged' = errLogged + 1
    /\ exitStatus' = 0
    /\ pc' = "terminated"

\* lines 244-246: VacuumLoginError reaches the top level
TopLevelLoginError(reason) ==
    /\ fatal' = reason
    /\ errLogged' = errLogged + 1
    /\ exitStatus' = 1
    /\ pc' = "terminated"

\* an exception other than VacuumLoginError leaves asyncio.run uncaught
Uncaught(reason, status) ==
    /\ fatal' = reason
    /\ exitStatus' = status
    /\ pc' = "terminated"
    /\ UNCHANGED errLogged

\* str.strip() on the modelled inputs (line 171)
Strip(text) == IF text = " " THEN "" ELSE text

\* what the operator may type at either prompt
TypedInputs == {"", " ", "a@b.c"}

\* the local variables email and password after lines 171-172; the password
\* is kept as empty or given
Credentials(email, password) ==
    [asked |-> TRUE, email |-> email, password_given |-> password # ""]

\* prompts whose test of line 173 looks at the email only
PromptEmailOnly ==
    /\ pc = "prompt"
    /\ \E typed_email \in TypedInputs, password \in TypedInputs :
        LET email == Strip(typed_email)
        IN  /\ credentials' = Credentials(email, password)
            /\ IF email = ""
               THEN Uncaught("usage", 1)
               ELSE /\ pc' = "authenticating"
                    /\ UNCHANGED <<fatal, errLogged, exitStatus>>
    /\ UNCHANGED <<cloudCalls, vacuum_details, calls, stdoutNotice,
                   interruptedAt>>
    /\ UNCHANGED <<reporterVars, discVars, resolveVars>>

\* lines 171-177: the two prompts; SystemExit with a message is status 1
Prompt ==
    /\ pc = "prompt"
    /\ \E typed_email \in TypedInputs, password \in TypedInputs :
        LET email == Strip(typed_email)
        IN  /\ credentials' = Credentials(email, password)
            /\ IF email = "" \/ password = ""
               THEN Uncaught("usage", 1)
               ELSE /\ pc' = "authenticating"
                    /\ UNCHANGED <<fatal, errLogged, exitStatus>>
    /\ UNCHANGED <<cloudCalls, vacuum_details, calls, stdoutNotice,
                   interruptedAt>>
    /\ UNCHANGED <<reporterVars, discVars, resolveVars>>

\* the responses main's login is run against
MainInputs ==
    ResolveInputs(SeqsUpTo(DeviceRecords(ProductCodes), 1), {<< >>}, {<< >>})

\* lines 49-111: the cloud API calls one run of the resolver makes
CloudCalls(in) ==
    LET r == FetchFirstVacuum(in)
    IN  {"login"}
        \cup (IF in.login = "ok" THEN {"device_list"} ELSE {})
        \cup (IF in.login = "ok" /\ in.device_response # "none"
              THEN {"settings"} ELSE {})
        \cup (IF r.lookups # << >> THEN {"lookup"} ELSE {})

\* lines 178-182: fetch_first_vacuum returns or raises
Authenticate ==
    /\ pc = "authenticating"
    /\ \E in \in MainInputs :
        LET r == FetchFirstVacuum(in)
        IN  /\ cloudCalls' = CloudCalls(in)
            /\ IF r.kind = "error"
               THEN /\ TopLevelLoginError(r.reason)
                    /\ UNCHANGED <<vacuum_details, device_id>>
               ELSE /\ vacuum_details' = r.details
                    /\ device_id' = r.details.id
                    /\ pc' = "discovering"
                    /\ UNCHANGED <<fatal, errLogged, exitStatus>>
    /\ UNCHANGED <<credentials, calls, stdoutNotice, interruptedAt>>
    /\ UNCHANGED <<dpc, ip_future, listener, closeCalls, dres, delivered,
                   setCalls, cbRaised>>
    /\ UNCHANGED <<reporterVars, resolveVars>>

\* line 182: discover_device_ip runs while main awaits it
Discovering ==
    /\ pc = "discovering"
    /\ DiscoverStep
    /\ UNCHANGED <<reporterVars, resolveVars, mainVars>>

\* a constructor call whose ModelNotSupportedException is not looked at
SessionOutcomeAnyModel(product_code) ==
    IF Take(product_code, 5) = << >> THEN "no_model" ELSE "session"

\* lines 207-223: "no_model", "unsupported" or "session"
SessionOutcome(product_code) ==
    LET model_code == Take(product_code, 5)
    IN  IF model_code = << >> THEN "no_model"
        ELSE IF model_code \notin SupportedModels THEN "unsupported"
        ELSE "session"

\* the frame of discover_device_ip is gone once main resumes
DiscFrameDropped ==
    /\ dpc' = "idle"
    /\ ip_future' = FutureNone
    /\ delivered' = << >>
    /\ setCalls' = 0
    /\ cbRaised' = FALSE
    /\ dres' = NoResult
    /\ UNCHANGED <<device_id, listener, closeCalls>>

\* lines 182-226: discover_device_ip ended; build the session and call connect
ConstructSession ==
    /\ pc = "discovering"
    /\ dpc = "done"
    /\ DiscFrameDropped
    /\ IF dres.kind = "error"
       THEN /\ TopLevelLoginError(dres.val)
            /\ UNCHANGED <<vacuum, calls>>
       ELSE LET outcome == SessionOutcome(vacuum_details.model)
            IN  IF outcome = "session"
                THEN /\ vacuum' = "session"
                     /\ calls' = [calls EXCEPT !.connect = @ + 1]
                     /\ pc' = "connecting"
                     /\ UNCHANGED <<fatal, errLogged, exitStatus>>
                ELSE /\ TopLevelLoginError(outcome)
                     /\ UNCHANGED <<vacuum, calls>>
    /\ UNCHANGED <<vac_state, previous_state, last, printedFresh>>
    /\ UNCHANGED <<credentials, cloudCalls, vacuum_details, stdoutNotice, interruptedAt>>
    /\ UNCHANGED resolveVars

\* a finally clause that does not reach the session
DisconnectSkipped == calls' = calls

\* line 238: the finally clause
Disconnect == calls' = [calls EXCEPT !.disconnect = @ + 1]

\* lines 226-227: async_connect returned, async_get is called
ConnectOk ==
    /\ pc = "connecting"
    /\ calls' = [calls EXCEPT !.get = @ + 1]
    /\ pc' = "querying"
    /\ UNCHANGED <<credentials, cloudCalls, vacuum_details, stdoutNotice, fatal, errLogged, exitStatus,
                   interruptedAt>>
    /\ UNCHANGED <<reporterVars, discVars, resolveVars>>

\* lines 226-227, 237-238: async_connect or async_get raised
SessionCallFails ==
    /\ pc \in {"connecting", "querying"}
    /\ Disconnect
    /\ Uncaught(IF pc = "connecting" THEN "connect_failed" ELSE "get_failed", 1)
    /\ UNCHANGED <<credentials, cloudCalls, vacuum_details, stdoutNotice, interruptedAt>>
    /\ UNCHANGED <<reporterVars, discVars, resolveVars>>

\* a main that enters the idle loop without its own reporter call
BaselineReportSkipped ==
    /\ pc = "querying"
    /\ stdoutNotice' = stdoutNotice \cup {"listening"}
    /\ pc' = "listening"
    /\ UNCHANGED <<credentials, cloudCalls, vacuum_details, calls, fatal,
                   errLogged, exitStatus, interruptedAt>>
    /\ UNCHANGED <<reporterVars, discVars, resolveVars>>

\* lines 227-234: async_get returned; the baseline report, then the idle loop
BaselineReport ==
    /\ pc = "querying"
    /\ LogStateUpdate("baseline")
    /\ calls' = [calls EXCEPT !.report = @ + 1]
    /\ stdoutNotice' = stdoutNotice \cup {"listening"}
    /\ pc' = "listening"
    /\ UNCHANGED <<vacuum, vac_state>>
    /\ UNCHANGED <<credentials, cloudCalls, vacuum_details, fatal, errLogged,
                   exitStatus, interruptedAt>>
    /\ UNCHANGED <<discVars, resolveVars>>

\* lines 228, 199-205, 237-238: the baseline call raises while it prints (the
\* snapshot was replaced at line 199 already); the finally clause runs
BaselineReportRaises ==
    /\ pc = "querying"
    /\ LET r == LogStateUpdateResult(vacuum, previous_state, vac_state)
       IN  /\ r.out # << >>
           /\ previous_state' = r.snapshot
    /\ calls' = [calls EXCEPT !.report = @ + 1, !.disconnect = @ + 1]
    /\ Uncaught("report_failed", 1)
    /\ UNCHANGED <<vacuum, vac_state, last, printedFresh>>
    /\ UNCHANGED <<credentials, cloudCalls, vacuum_details, stdoutNotice, interruptedAt>>
    /\ UNCHANGED <<discVars, resolveVars>>

\* the session works while main is suspended in connect, get or the idle loop
SessionActive == pc \in {"connecting", "querying", "listening"}

SessionStateChange ==
    /\ SessionActive
    /\ DeviceStateChange
    /\ UNCHANGED <<discVars, resolveVars, mainVars>>

SessionPush ==
    /\ SessionActive
    /\ PushCallback
    /\ UNCHANGED <<discVars, resolveVars, mainVars>>

\* lines 178-182, 151-164 and 243-246: the interrupt cancels main's task while
\* it awaits fetch_first_vacuum, discovery.start() or wait_for. CancelledError
\* is not DiscoveryPortsNotAvailableException, so an interrupt during start()
\* skips line 154; during the wait the finally clause of line 164 closes
InterruptBeforeSession ==
    /\ \/ pc = "authenticating"
       \/ pc = "discovering" /\ dpc \in {"starting", "waiting", "timed_out"}
    /\ interruptedAt' = (IF pc = "authenticating" THEN pc ELSE dpc)
    /\ IF pc = "discovering" /\ dpc \in {"waiting", "timed_out"}
       THEN /\ ListenerClose
            /\ ip_future' = (IF ip_future.st = "pending"
                             THEN [st |-> "cancelled", val |-> ""]
                             ELSE ip_future)
       ELSE UNCHANGED <<listener, closeCalls, ip_future>>
    /\ Uncaught("KeyboardInterrupt", 130)
    /\ UNCHANGED <<device_id, dpc, dres, delivered, setCalls, cbRaised>>
    /\ UNCHANGED <<credentials, cloudCalls, vacuum_details, calls, stdoutNotice>>
    /\ UNCHANGED <<reporterVars, resolveVars>>

\* lines 235-238 and 243-246: the interrupt reaches main as the cancellation of
\* its task (asyncio.run's SIGINT handler); `except KeyboardInterrupt` does not
\* match CancelledError, the finally clause runs, and asyncio.run raises
\* KeyboardInterrupt, which the __main__ block does not catch
InterruptCancelsSession ==
    /\ SessionActive
    /\ interruptedAt' = pc
    /\ Disconnect
    /\ Uncaught("KeyboardInterrupt", 130)
    /\ UNCHANGED <<credentials, cloudCalls, vacuum_details, stdoutNotice>>
    /\ UNCHANGED <<reporterVars, discVars, resolveVars>>

\* lines 235-238: KeyboardInterrupt is raised inside main's own frame
InterruptCaughtInMain ==
    /\ SessionActive
    /\ interruptedAt' = pc
    /\ stdoutNotice' = stdoutNotice \cup {"disconnecting"}
    /\ Disconnect
    /\ exitStatus' = 0
    /\ pc' = "terminated"
    /\ UNCHANGED <<credentials, cloudCalls, vacuum_details, fatal, errLogged>>
    /\ UNCHANGED <<reporterVars, discVars, resolveVars>>

Init ==
    /\ pc = "prompt"
    /\ vacuum = "None"
    /\ ReporterFresh
    /\ DiscIdle
    /\ device_id = ""
    /\ ResolveIdle
    /\ MainIdle

Next ==
    \/ Prompt
    \/ Authenticate
    \/ Discovering
    \/ ConstructSession
    \/ ConnectOk
    \/ SessionCallFails
    \/ BaselineReport
    \/ BaselineReportRaises
    \/ SessionStateChange
    \/ SessionPush
    \/ InterruptBeforeSession
    \/ InterruptCancelsSession
    \/ InterruptCaughtInMain

Spec == Init /\ [][Next]_vars

---------------------------------------------------------------------------
(* The components on their own                                             *)

\* the reporter with a constructed session, as in the idle loop
InitReporter ==
    /\ pc = "listening"
    /\ vacuum = "session"
    /\ ReporterFresh
    /\ DiscIdle
    /\ device_id = "vac1"
    /\ ResolveIdle
    /\ MainIdle

NextReporter ==
    \/ DeviceStateChange /\ UNCHANGED <<discVars, resolveVars, mainVars>>
    \/ PushCallback /\ UNCHANGED <<discVars, resolveVars, mainVars>>

SpecReporter == InitReporter /\ [][NextReporter]_vars

\* discover_device_ip called for either device id
InitDiscover ==
    /\ pc = "discovering"
    /\ vacuum = "None"
    /\ ReporterFresh
    /\ DiscIdle
    /\ device_id \in DeviceIds
    /\ ResolveIdle
    /\ MainIdle

NextDiscover == DiscoverStep /\ UNCHANGED <<reporterVars, resolveVars, mainVars>>

SpecDiscover == InitDiscover /\ [][NextDiscover]_vars

\* _fetch_first_vacuum_sync against every combination of responses
InitResolve ==
    /\ pc = "authenticating"
    /\ vacuum = "None"
    /\ ReporterFresh
    /\ DiscIdle
    /\ device_id = ""
    /\ MainIdle
    /\ rin \in ResolveInputs(SeqsUpTo(DeviceRecords({Chars("T", "2", "1", "1", "8")}),
                                      MaxDevices),
                             TuyaHomes, UserInfos)
    /\ rout = NotRun

NextResolve == Resolve /\ UNCHANGED <<reporterVars, discVars, mainVars>>

SpecResolve == InitResolve /\ [][NextResolve]_vars

---------------------------------------------------------------------------
(* Properties                                                              *)

\* json.loads of one value, and of the printed body
JsonParse(t) ==
    CASE t = "null" -> "None"
      [] t = "true" -> "True"
      [] t = "1" -> "1"
      [] t = "\"docked\"" -> "'docked'"

JsonLoads(body) ==
    [k \in {body[i][1] : i \in DOMAIN body} |->
        JsonParse(body[CHOOSE i \in DOMAIN body : body[i][1] = k][2])]

\* the mapping an invocation printed, the empty mapping if it printed nothing
PrintedChanges(out) == IF out = << >> THEN EmptyMap ELSE JsonLoads(out[2].body)

\* {k: current[k] for k in current if previous.get(k) != current[k]}
ChangeSetOf(previous, current) ==
    [k \in {x \in DOMAIN current : ~PyEq(DictGet(previous, x), current[x])}
        |-> current[k]]

\* C1: an invocation on a non-empty state prints exactly the ChangeSet of the
\* stored snapshot and the current state (header, key-sorted body, blank line)
\* when it is non-empty, and prints nothing at all when it is empty.
C1_PrintsExactlyTheChangeSet ==
    (last.by # "none" /\ last.cur # EmptyMap) =>
        LET cs == ChangeSetOf(last.prev, last.cur)
        IN  IF cs = EmptyMap
            THEN last.out = << >>
            ELSE /\ Len(last.out) = 3
                 /\ last.out[1].kind = "header"
                 /\ last.out[2].kind = "json"
                 /\ last.out[3].kind = "blank"
                 /\ Len(last.out[2].body) = Cardinality(DOMAIN cs)
                 /\ JsonLoads(last.out[2].body) = cs

\* C1 witness: an invocation against a non-empty snapshot printed some but not
\* all fields of the current state
C1_Witness ==
    /\ last.by = "push"
    /\ last.prev # EmptyMap
    /\ last.out # << >>
    /\ DOMAIN PrintedChanges(last.out) # DOMAIN last.cur

\* C2: the first invocation on a non-empty state (the snapshot is still the
\* empty mapping) reports every field of the current state as changed.
C2_FirstUpdateReportsEveryField ==
    (last.by # "none" /\ last.prev = EmptyMap /\ last.cur # EmptyMap) =>
        DOMAIN PrintedChanges(last.out) = DOMAIN last.cur

\* C3: after an invocation with a non-empty ChangeSet the snapshot equals the
\* current state exactly, and a key of an older snapshot that the newer state
\* dropped is reported as changed when it reappears with its old value.
C3_ReplacedSnapshotReportsReappearingKey ==
    /\ [](last.out # << >> => previous_state = last.cur)
    /\ [][\A k \in Keys :
            ( /\ PushCallback
              /\ last.out # << >>
              /\ k \in DOMAIN last.prev
              /\ k \notin DOMAIN last.cur
              /\ k \in DOMAIN vac_state
              /\ vac_state[k] = last.prev[k] )
            => k \in DOMAIN PrintedChanges(last'.out)]_vars

\* a payload for the requested device that carries a non-empty ip
Qualifies(p) ==
    /\ "gwId" \in DOMAIN p
    /\ p["gwId"] = device_id
    /\ "ip" \in DOMAIN p
    /\ p["ip"] # ""

QualifyingAt == {i \in DOMAIN delivered : Qualifies(delivered[i])}

FirstQualifying == CHOOSE i \in QualifyingAt : \A j \in QualifyingAt : i <= j

\* C4: the result is never resolved by a payload of another device or one
\* without an ip; it is resolved at most once, by the first qualifying payload
\* delivered while it is pending, to that payload's ip; later payloads neither
\* change it nor make the callback raise.
C4_ResolvedOnceByFirstMatch ==
    /\ ~cbRaised
    /\ setCalls <= 1
    /\ (QualifyingAt = {} => (ip_future.st # "result" /\ setCalls = 0))
    /\ (ip_future.st = "result" =>
            /\ QualifyingAt # {}
            /\ ip_future.val = delivered[FirstQualifying]["ip"]
            /\ setCalls = 1)
    /\ ((QualifyingAt # {} /\ ip_future.st # "cancelled") => ip_future.st = "result")
    /\ (dres.kind = "ip" => dres.val = delivered[FirstQualifying]["ip"])

\* C4 witness: a payload of another device, then a qualifying one that resolved
\* the result, then a qualifying one with a different ip
C4_Witness ==
    /\ Len(delivered) = 3
    /\ ~Qualifies(delivered[1])
    /\ "ip" \in DOMAIN delivered[1] /\ delivered[1]["ip"] # ""
    /\ Qualifies(delivered[2])
    /\ Qualifies(delivered[3])
    /\ delivered[3]["ip"] # delivered[2]["ip"]
    /\ ip_future = [st |-> "result", val |-> delivered[2]["ip"]]

TimeoutError == [kind |-> "error", val |-> "timeout"]

\* C5: when the listener started and the timeout expires with the result still
\* pending, discover_device_ip raises the timed-out VacuumLoginError, and when
\* that error leaves the function close() has run exactly once.
C5_TimeoutRaisesAndClosesOnce ==
    /\ (dpc = "timed_out" => (ip_future.st = "cancelled" /\ closeCalls = 0))
    /\ ((dpc = "done" /\ ip_future.st = "cancelled") => dres = TimeoutError)
    /\ (dres = TimeoutError =>
            /\ dpc = "done"
            /\ ip_future.st = "cancelled"
            /\ listener = "closed"
            /\ closeCalls = 1)

\* C5 witness: the timeout error after payloads that did not qualify
C5_Witness ==
    /\ dres = TimeoutError
    /\ delivered # << >>
    /\ \A i \in DOMAIN delivered : ~Qualifies(delivered[i])

\* C6: whenever discover_device_ip has ended by returning the ip, by the
\* timeout error or by the start-failure error, the listener is closed.
C6_ListenerClosedOnEveryExit ==
    (dpc = "done" \/ dres.kind \in {"ip", "error"}) =>
        (listener = "closed" /\ closeCalls >= 1)

\* C6 witness: start() failed after the listener was created
C6_Witness ==
    /\ dpc = "done"
    /\ dres = [kind |-> "error", val |-> "ports"]
    /\ listener = "closed"

\* the scan is reached when the three cloud responses are usable
ScanReached ==
    /\ rout # NotRun
    /\ rin.login = "ok"
    /\ rin.device_response = "ok"
    /\ rin.settings_response = "ok"

\* a device that is a vacuum and whose lookup returned a non-empty local key
Usable(i) ==
    /\ rin.devices[i].appliance = "Cleaning"
    /\ rin.devices[i].lookup \notin {"raises", ""}

UsableAt == {i \in DOMAIN rin.devices : Usable(i)}

FirstUsable == CHOOSE i \in UsableAt : \A j \in UsableAt : i <= j

\* the positions of the "Cleaning" devices among the first n, in list order
CleaningUpTo(n) ==
    SelectSeq([i \in 1..n |-> i], LAMBDA i : rin.devices[i].appliance = "Cleaning")

\* C7: the result is the descriptor of the first device in list order that is
\* "Cleaning" and whose lookup returned a non-empty key; exactly the
\* "Cleaning" devices up to it are looked up, in order, whatever the earlier
\* lookups did; with no such device the result is the no-devices error.
C7_FirstUsableCleaningDevice ==
    ScanReached =>
        IF UsableAt = {}
        THEN /\ rout.kind = "error"
             /\ rout.reason = "no_devices"
             /\ rout.lookups = CleaningUpTo(Len(rin.devices))
        ELSE /\ rout.kind = "ok"
             /\ rout.idx = FirstUsable
             /\ rout.details.id = IdNames[FirstUsable]
             /\ rout.details.access_token = rin.devices[FirstUsable].lookup
             /\ rout.lookups = CleaningUpTo(FirstUsable)

\* C7 witness: the first candidate's lookup raised and the second was accepted
C7_Witness ==
    /\ ScanReached
    /\ Len(rin.devices) = 2
    /\ rin.devices[1].appliance = "Cleaning"
    /\ rin.devices[1].lookup = "raises"
    /\ rout.kind = "ok"
    /\ rout.idx = 2

\* a profile field counts as present when it holds a non-empty value
Present(d, key) == key \in DOMAIN d /\ d[key] # ""

\* C8: the region and country code follow the four rules in order: the
\* settings' region code if the key is there ("EU" if empty, country code from
\* the phone code or else by region), else the phone code, else the country,
\* else "EU" and "44".
C8_RegionPrecedence ==
    ScanReached =>
        LET home == rin.tuya_home
            info == rin.user_info
        IN  IF "tuya_region_code" \in DOMAIN home
            THEN /\ rout.derived.region =
                        (IF home["tuya_region_code"] = "" THEN "EU"
                         ELSE home["tuya_region_code"])
                 /\ rout.derived.country_code =
                        (IF Present(info, "phone_code") THEN info["phone_code"]
                         ELSE get_phone_code_by_region(rout.derived.region))
            ELSE IF Present(info, "phone_code")
            THEN /\ rout.derived.region = get_region_by_phone_code(info["phone_code"])
                 /\ rout.derived.country_code = info["phone_code"]
            ELSE IF Present(info, "country")
            THEN /\ rout.derived.region = get_region_by_country_code(info["country"])
                 /\ rout.derived.country_code =
                        get_phone_code_by_country_code(info["country"])
            ELSE /\ rout.derived.region = "EU"
                 /\ rout.derived.country_code = "44"

\* C8 witness: the region code wins over a phone code and a country that are
\* both there
C8_Witness ==
    /\ ScanReached
    /\ rin.tuya_home = [f \in {"tuya_region_code"} |-> "US"]
    /\ Present(rin.user_info, "phone_code")
    /\ Present(rin.user_info, "country")
    /\ rout.derived = [region |-> "US", country_code |-> "49"]

\* the descriptor's model code is one the constructor does not recognise
UnrecognisedModel ==
    /\ vacuum_details # NoDetails
    /\ Take(vacuum_details.model, 5) # << >>
    /\ Take(vacuum_details.model, 5) \notin SupportedModels

\* C9: with an unrecognised model code no session ever exists and connect,
\* the state query and disconnect are never invoked; once discovery has
\* succeeded the run ends on the unsupported-model VacuumLoginError (logged,
\* exit status 1).
C9_UnsupportedModelNeverConnects ==
    /\ (UnrecognisedModel => (vacuum = "None" /\ calls = NoCalls))
    /\ (fatal = "unsupported" =>
            /\ UnrecognisedModel
            /\ pc = "terminated"
            /\ errLogged = 1
            /\ exitStatus = 1)
    /\ ((UnrecognisedModel /\ pc = "terminated" /\ interruptedAt = "none"
            /\ fatal \notin {"timeout", "ports"}) => fatal = "unsupported")

\* C9 witness: discovery succeeded and the constructor rejected the model
C9_Witness ==
    /\ fatal = "unsupported"
    /\ closeCalls = 1
    /\ Len(vacuum_details.model) > 5

\* C10: an interrupt in the idle loop ends the run with the 'Disconnecting'
\* notice printed, disconnect attempted and exit status 0.
C10_InterruptInListeningExitsZero ==
    (pc = "terminated" /\ interruptedAt = "listening") =>
        /\ "disconnecting" \in stdoutNotice
        /\ calls.disconnect = 1
        /\ exitStatus = 0

\* C11: once the session is constructed, a run that has terminated invoked
\* disconnect exactly once, whichever way it left the try block (connect or
\* the state query raising, the baseline report raising, an interrupt); it is
\* never invoked while the run is still inside the try block, and never twice
C11_DisconnectExactlyOnce ==
    /\ calls.disconnect <= 1
    /\ (vacuum = "session" /\ pc = "terminated") => calls.disconnect = 1
    /\ pc # "terminated" => calls.disconnect = 0

C11_Witness ==
    /\ pc = "terminated"
    /\ vacuum = "session"
    /\ fatal = "report_failed"
    /\ calls.disconnect = 1

\* C12: when the email (after strip) or the password is empty, the run is
\* terminated straight from the prompts with the usage error and a non-zero
\* exit status, and no collaborator was called: no cloud login, device list,
\* settings or lookup call, no listener created or started, no session
\* constructed or used
BlankCredentials ==
    /\ credentials.asked
    /\ credentials.email = "" \/ ~credentials.password_given

NoCollaboratorCall ==
    /\ cloudCalls = {}
    /\ listener = "none" /\ closeCalls = 0 /\ delivered = << >>
    /\ vacuum = "None" /\ calls = NoCalls
    /\ vacuum_details = NoDetails

C12_BlankCredentialsStopBeforeAnyCall ==
    BlankCredentials =>
        /\ pc = "terminated"
        /\ fatal = "usage"
        /\ exitStatus \notin {-1, 0}
        /\ NoCollaboratorCall

C12_Witness ==
    /\ credentials.asked
    /\ credentials.email # "" /\ ~credentials.password_given
    /\ pc = "terminated"
    /\ exitStatus = 1

\* C13: a VacuumLoginError, wherever it is raised, is logged once by the top
\* level and ends the run with exit status 1 before any later stage acts: a
\* login error leaves discovery unstarted, and no login, discovery or
\* construction error leaves a session constructed or connected; nothing else
\* is logged by the top level
AuthenticatingErrors ==
    {"unreachable", "rejected", "no_device_list", "no_settings", "no_devices"}

DiscoveringErrors == {"ports", "timeout"}

ConstructionErrors == {"no_model", "unsupported"}

LoginErrors ==
    AuthenticatingErrors \cup DiscoveringErrors \cup ConstructionErrors

C13_LoginErrorLoggedOnceExitsOne ==
    /\ errLogged <= 1
    /\ errLogged = 1 <=> fatal \in LoginErrors
    /\ fatal \in LoginErrors =>
          /\ pc = "terminated"
          /\ exitStatus = 1
          /\ vacuum = "None"
          /\ calls = NoCalls
    /\ fatal \in AuthenticatingErrors =>
          /\ listener = "none"
          /\ dpc = "idle"
          /\ delivered = << >>
    /\ fatal \in DiscoveringErrors => listener = "closed"

C13_Witness ==
    /\ pc = "terminated"
    /\ fatal = "timeout"
    /\ errLogged = 1
    /\ exitStatus = 1
    /\ cloudCalls # {}

\* C14 as claimed: after every reporter invocation the snapshot equals the
\* session state that invocation observed, empty/unset states included
C14_SnapshotEqualsLastObservedState ==
    last.by # "none" => previous_state = last.cur

\* C14 amended: the snapshot equals the state observed by the most recent
\* invocation that found a non-empty state (whether or not it had changes to
\* print, whether or not it had fewer keys than the snapshot); an invocation
\* that finds the state empty/unset leaves the snapshot as it was
C14_SnapshotEqualsLastNonEmptyState ==
    /\ previous_state = last.seen
    /\ (last.by # "none" /\ last.cur # EmptyMap) => previous_state = last.cur
    /\ (last.by # "none" /\ last.cur = EmptyMap) => previous_state = last.prev

C14_Witness ==
    /\ last.by = "push"
    /\ last.cur # EmptyMap
    /\ last.out = << >>
    /\ DOMAIN last.cur # DOMAIN last.prev
    /\ DOMAIN last.cur \subseteq DOMAIN last.prev
    /\ previous_state = last.cur

\* C15: an invocation that finds the session state empty/unset prints nothing
\* and leaves the snapshot as it was, and the next invocation is diffed
\* against that same snapshot
C15_EmptyStateIsNoOp ==
    /\ []((last.by # "none" /\ last.cur = EmptyMap) =>
             (last.out = << >> /\ previous_state = last.prev))
    /\ [][(last.by # "none" /\ last.cur = EmptyMap /\ PushCallback) =>
             /\ last'.prev = last.prev
             /\ PrintedChanges(last'.out) = ChangeSetOf(last.prev, vac_state)]_vars

C15_Witness ==
    /\ last.by = "push"
    /\ last.cur = EmptyMap
    /\ last.prev # EmptyMap
    /\ last.out = << >>
    /\ previous_state = last.prev
    /\ vac_state # EmptyMap

\* connect, the state query and main's own reporter call happen in this order,
\* each at most once, and all three have happened once the idle loop is entered
ConnectQueryReportInOrder ==
    /\ calls.connect <= 1
    /\ calls.get <= calls.connect
    /\ calls.report <= calls.get
    /\ pc = "connecting" => (calls.connect = 1 /\ calls.get = 0)
    /\ pc = "querying" => (calls.get = 1 /\ calls.report = 0)
    /\ pc = "listening" => calls.report = 1

NoneFree(m) == \A k \in DOMAIN m : m[k] # "None"

\* C16 as claimed, for queried states without None-valued fields: connect,
\* query and baseline call in order and once each, and the baseline call
\* prints every field of the queried state, whatever the push callback did
\* during connect or the query
C16_BaselinePrintsQueriedState ==
    /\ ConnectQueryReportInOrder
    /\ (last.by = "baseline" /\ NoneFree(last.cur)) =>
          PrintedChanges(last.out) = last.cur

\* C16 amended: connect, query and baseline call in order and once each; the
\* baseline call prints the ChangeSet of the queried state against the
\* snapshot it finds: every field that is not None when no push callback has
\* stored a snapshot before it, and nothing when a push callback has already
\* reported the queried state
C16_BaselinePrintsChangeSet ==
    /\ ConnectQueryReportInOrder
    /\ last.by = "baseline" =>
          /\ PrintedChanges(last.out) = ChangeSetOf(last.prev, last.cur)
          /\ last.prev = EmptyMap =>
                PrintedChanges(last.out) =
                    [k \in {x \in DOMAIN last.cur : last.cur[x] # "None"}
                        |-> last.cur[k]]
          /\ last.prev = last.cur => last.out = << >>

C16_Witness ==
    /\ pc = "listening"
    /\ last.by = "baseline"
    /\ last.prev = last.cur
    /\ last.cur # EmptyMap
    /\ last.out = << >>
    /\ calls = [connect |-> 1, get |-> 1, report |-> 1, disconnect |-> 0]

\* what a step that touches the snapshot or completes an invocation does
ReporterStepAtomic ==
    /\ (previous_state' # previous_state) =>
          (vac_state' = vac_state /\ previous_state' = vac_state)
    /\ (last' # last) =>
          /\ vac_state' = vac_state
          /\ last'.prev = previous_state
          /\ last'.cur = vac_state
          /\ PrintedChanges(last'.out) = ChangeSetOf(previous_state, vac_state)
          /\ PrintedKeys(last'.out) \cap printedFresh = {}

\* C17: with the push callback interleaved anywhere between main's steps, each
\* reporter invocation reads the state, diffs, replaces the snapshot and
\* prints within one step: while main runs, the snapshot is the one the
\* preceding invocation left; a step that touches the snapshot or completes an
\* invocation reads and writes in that same step, with the state unchanged
\* across it, and prints exactly the diff of that state against that
\* snapshot; and no field is printed again while it has not changed since it
\* was last printed
C17_ReporterInvocationsAtomic ==
    /\ [](pc # "terminated" => previous_state = last.seen)
    /\ [][ReporterStepAtomic]_vars

C17_Witness ==
    /\ pc = "listening"
    /\ last.by = "push"
    /\ last.out # << >>
    /\ last.prev # EmptyMap
    /\ printedFresh # {}
    /\ printedFresh # DOMAIN vac_state

\* C18: a run ended by an operator interrupt, wherever it arrived, has gone
\* through teardown: the discovery listener, if one was created, is closed,
\* and the session, if constructed, has had disconnect invoked
C18_InterruptRoutesThroughTeardown ==
    (pc = "terminated" /\ interruptedAt # "none") =>
        /\ listener # "none" => listener = "closed"
        /\ vacuum = "session" => calls.disconnect >= 1

\* C19: a reporter invocation that finds the state equal to the one the
\* preceding invocation found prints nothing and leaves the snapshot as the
\* preceding invocation left it
C19_SecondInvocationPrintsNothing ==
    [][(last.by # "none" /\ vac_state = last.cur /\ PushCallback) =>
          /\ last'.out = << >>
          /\ previous_state' = previous_state
          /\ last'.prev = previous_state]_vars

C19_Witness ==
    /\ last.by = "push"
    /\ last.cur # EmptyMap
    /\ last.prev = last.cur
    /\ last.out = << >>
    /\ vac_state = last.cur
    /\ previous_state = last.cur
    /\ printedFresh # {}

\* a payload reaches the callback while the future is already done
LatePayload ==
    /\ ip_future.st \in {"result", "cancelled"}
    /\ delivered' # delivered

\* C20: a payload that reaches the callback after the future was resolved, or
\* after the timeout cancelled it (with the listener still open or already
\* closed), does not call set_result, does not raise and leaves the future and
\* the outcome of discover_device_ip as they were; an outcome once returned
\* or raised never changes
C20_LatePayloadIgnored ==
    /\ [](~cbRaised)
    /\ [][LatePayload =>
            /\ ip_future' = ip_future
            /\ setCalls' = setCalls
            /\ ~cbRaised'
            /\ dres' = dres]_vars
    /\ [][dres # NoResult => dres' = dres]_vars

C20_Witness ==
    /\ dres = TimeoutError
    /\ listener = "closed"
    /\ ip_future.st = "cancelled"
    /\ Len(delivered) >= 2
    /\ Qualifies(delivered[Len(delivered) - 1])
    /\ Qualifies(delivered[Len(delivered)])
    /\ ~cbRaised

====
